---- MODULE Spec2Model ----
(***************************************************************************)
(* Model of the VulnerableVault contract (src/src/lib.rs): a ledger of     *)
(* per-account balances with an aggregate total, and a reentrancy guard    *)
(* stored in the same contract storage.                                    *)
(*                                                                         *)
(* One call is executed at a time, statement by statement.  A failed       *)
(* assert! panics, which reverts the call: the storage goes back to what   *)
(* it was when the call started.  U256 `+` and `-` wrap modulo 2^256.      *)
(* No entry point of lib.rs makes an outbound call, so no call is ever     *)
(* started while another one is in flight.                                 *)
(***************************************************************************)
EXTENDS Integers, Sequences, FiniteSets, TLC

\* ---------------------------------------------------------------- bounds
\* Largest value of the (scaled down) U256 domain; arithmetic wraps
\* modulo MaxU256 + 1.
MaxU256 == 3

\* Number of distinct caller addresses.
NumAccounts == 2

U256 == 0 .. MaxU256

Modulus == MaxU256 + 1

Accounts == 1 .. NumAccounts

\* ------------------------------------------------------ program constants
\* Guard status values stored in reentrancy_status.
NOT_ENTERED == 0

ENTERED == 1

VARIABLES
    balances,           \* mapping(address => uint256): the ledger
    total_deposits,     \* aggregate total
    reentrancy_status,  \* guard status word
    transfers,          \* outbound value transfers issued by the contract
    pc,                 \* position of the call in flight, "idle" when none
    func,               \* entry point of the current / last call
    sender,             \* msg_sender of the current / last call
    amount,             \* msg_value (deposit) or the amount argument
    current_balance,    \* the local current_balance of the withdraw paths
    snap,               \* storage when the current / last call started
    result,             \* outcome of the last completed call
    retval,             \* argument and value returned by the last view call
    credited            \* accounts whose balance a deposit has written

vars == <<balances, total_deposits, reentrancy_status, transfers, pc, func,
          sender, amount, current_balance, snap, result, retval, credited>>

storage == <<balances, total_deposits, reentrancy_status, transfers>>

frame == <<func, sender, amount, snap, retval, credited>>

\* ------------------------------------------------------------ arithmetic
\* U256 `+`: wraps around at the boundary of the type.
WrappingAdd(a, b) == (a + b) % Modulus

\* U256 `-`: wraps around at the boundary of the type.
WrappingSub(a, b) == (a - b + Modulus) % Modulus

\* ------------------------------------------------------------ view calls
BalanceOf(user) == balances[user]

TotalDeposits == total_deposits

IsEnteredMut == reentrancy_status # NOT_ENTERED

IsEntered == reentrancy_status = ENTERED

\* ------------------------------------------------------- guard and checks
\* The condition asserted by non_reentrant.
NotEnteredMut(status) == TRUE

NotEntered(status) == status = NOT_ENTERED

\* The condition asserted by withdraw and unsafe_withdraw.
SufficientBalanceMut(cur, amt) == TRUE

SufficientBalance(cur, amt) == cur >= amt

\* The value written by the guard reset at the end of deposit and withdraw.
ResetStatusMut == ENTERED

ResetStatus == NOT_ENTERED

\* Storage left behind by a call that panicked: everything the call wrote
\* is discarded.
RevertedMut(cur, atStart) == cur

RevertedExitMut(cur, atStart) == [atStart EXCEPT !.reentrancy_status = NOT_ENTERED]

Reverted(cur, atStart) == atStart

Snapshot ==
    [balances |-> balances, total_deposits |-> total_deposits,
     reentrancy_status |-> reentrancy_status, transfers |-> transfers]

CurrentStorage == Snapshot

\* A failed assert!: the call ends with the error and its writes are undone.
Panic(err) ==
    LET s == Reverted(CurrentStorage, snap) IN
    /\ balances' = s.balances
    /\ total_deposits' = s.total_deposits
    /\ reentrancy_status' = s.reentrancy_status
    /\ transfers' = s.transfers
    /\ pc' = "idle"
    /\ result' = err
    /\ UNCHANGED frame

\* ------------------------------------------------------------ call entry
\* No view call has returned since the last state-changing call started.
NoValue == [arg |-> 0, value |-> "none"]

Call(f, s, a, first) ==
    /\ pc = "idle"
    /\ pc' = first
    /\ func' = f
    /\ sender' = s
    /\ amount' = a
    /\ snap' = Snapshot
    /\ result' = "pending"
    /\ current_balance' = 0
    /\ retval' = NoValue
    /\ UNCHANGED <<storage, credited>>

CallDeposit == \E s \in Accounts, v \in U256 : Call("deposit", s, v, "d_enter")

CallWithdraw == \E s \in Accounts, a \in U256 : Call("withdraw", s, a, "w_enter")

\* First statement of unsafe_withdraw: the balance check, with no enter step.
UnsafeWithdrawEntryMut == "w_enter"

UnsafeWithdrawEntry == "u_check"

CallUnsafeWithdraw ==
    \E s \in Accounts, a \in U256 :
        Call("unsafe_withdraw", s, a, UnsafeWithdrawEntry)

\* ---------------------------------------------------------- non_reentrant
NonReentrant ==
    /\ pc \in {"d_enter", "w_enter"}
    /\ IF NotEntered(reentrancy_status)
       THEN /\ reentrancy_status' = ENTERED
            /\ pc' = (IF pc = "d_enter" THEN "d_bal" ELSE "w_check")
            /\ UNCHANGED <<balances, total_deposits, transfers, frame,
                           current_balance, result>>
       ELSE /\ Panic("ReentrantCall")
            /\ UNCHANGED current_balance

\* ---------------------------------------------------------------- deposit
DepositBalance ==
    /\ pc = "d_bal"
    /\ balances' = [balances EXCEPT ![sender] = WrappingAdd(balances[sender], amount)]
    /\ pc' = "d_total"
    /\ credited' = credited \cup {sender}
    /\ UNCHANGED <<total_deposits, reentrancy_status, transfers, func, sender,
                   amount, snap, retval, current_balance, result>>

DepositTotal ==
    /\ pc = "d_total"
    /\ total_deposits' = WrappingAdd(total_deposits, amount)
    /\ pc' = "d_reset"
    /\ UNCHANGED <<balances, reentrancy_status, transfers, frame,
                   current_balance, result>>

\* --------------------------------------------------------------- withdraw
BalanceCheck ==
    /\ pc \in {"w_check", "u_check"}
    /\ current_balance' = balances[sender]
    /\ IF SufficientBalance(balances[sender], amount)
       THEN /\ pc' = (IF pc = "w_check" THEN "w_bal" ELSE "u_bal")
            /\ UNCHANGED <<storage, frame, result>>
       ELSE Panic("InsufficientBalance")

DebitBalance ==
    /\ pc \in {"w_bal", "u_bal"}
    /\ balances' = [balances EXCEPT ![sender] = WrappingSub(current_balance, amount)]
    /\ pc' = (IF pc = "w_bal" THEN "w_total" ELSE "u_total")
    /\ UNCHANGED <<total_deposits, reentrancy_status, transfers, frame,
                   current_balance, result>>

DebitTotal ==
    /\ pc \in {"w_total", "u_total"}
    /\ total_deposits' = WrappingSub(total_deposits, amount)
    /\ pc' = (IF pc = "w_total" THEN "w_reset" ELSE "ret")
    /\ UNCHANGED <<balances, reentrancy_status, transfers, frame,
                   current_balance, result>>

\* ------------------------------------------------- guard reset and return
GuardReset ==
    /\ pc \in {"d_reset", "w_reset"}
    /\ reentrancy_status' = ResetStatus
    /\ pc' = "ret"
    /\ UNCHANGED <<balances, total_deposits, transfers, frame,
                   current_balance, result>>

ReturnTrue ==
    /\ pc = "ret"
    /\ pc' = "idle"
    /\ result' = "true"
    /\ UNCHANGED <<storage, frame, current_balance>>

\* ------------------------------------------------------------- view calls
\* A &self entry point: returns a value and writes nothing.
View(f, u, v) ==
    /\ pc = "idle"
    /\ pc' = "idle"
    /\ func' = f
    /\ snap' = Snapshot
    /\ result' = "value"
    /\ retval' = [arg |-> u, value |-> v]
    /\ UNCHANGED <<storage, sender, amount, current_balance, credited>>

CallBalanceOf == \E user \in Accounts : View("balance_of", user, BalanceOf(user))

CallTotalDeposits == View("total_deposits", 0, TotalDeposits)

CallIsEntered == View("is_entered", 0, IsEntered)

\* --------------------------------------------------------- specifications
InitFrame ==
    /\ pc = "idle"
    /\ func = "none"
    /\ sender = 1
    /\ amount = 0
    /\ current_balance = 0
    /\ result = "init"
    /\ retval = NoValue
    /\ snap = Snapshot

Init ==
    /\ balances = [a \in Accounts |-> 0]
    /\ total_deposits = 0
    /\ reentrancy_status = NOT_ENTERED
    /\ transfers = <<>>
    /\ credited = {}
    /\ InitFrame

\* Entry points applied to an arbitrary storage content.
InitAnyStorage ==
    /\ balances \in [Accounts -> U256]
    /\ total_deposits \in U256
    /\ reentrancy_status \in U256
    /\ transfers = <<>>
    /\ credited = {a \in Accounts : balances[a] # 0}
    /\ InitFrame

Next ==
    \/ CallDeposit
    \/ CallWithdraw
    \/ CallUnsafeWithdraw
    \/ NonReentrant
    \/ DepositBalance
    \/ DepositTotal
    \/ BalanceCheck
    \/ DebitBalance
    \/ DebitTotal
    \/ GuardReset
    \/ ReturnTrue
    \/ CallBalanceOf
    \/ CallTotalDeposits
    \/ CallIsEntered

Spec == Init /\ [][Next]_vars

SpecAnyStorage == InitAnyStorage /\ [][Next]_vars

TypeOK ==
    /\ balances \in [Accounts -> U256]
    /\ total_deposits \in U256
    /\ reentrancy_status \in U256
    /\ pc \in {"idle", "d_enter", "d_bal", "d_total", "d_reset", "w_enter",
               "w_check", "w_bal", "w_total", "w_reset", "u_check", "u_bal",
               "u_total", "ret"}
    /\ sender \in Accounts
    /\ amount \in U256

\* ------------------------------------------------------------ properties
RECURSIVE SumBalances(_, _)
SumBalances(b, S) ==
    IF S = {} THEN 0
    ELSE LET a == CHOOSE x \in S : TRUE IN b[a] + SumBalances(b, S \ {a})

Guarded == {"deposit", "withdraw"}

Completed == pc = "idle" /\ result # "init"

OthersUnchanged == \A a \in Accounts \ {sender} : balances[a] = snap.balances[a]

\* C1: whenever no call is in flight, total_deposits equals the sum of all
\* per-account balances.
C1_Conservation == pc = "idle" => total_deposits = SumBalances(balances, Accounts)

\* C2: is_entered() is false initially and again after every top-level
\* call has returned, whether it succeeded or failed.
C2_GuardNeverLeaks == pc = "idle" => ~IsEntered

\* A guarded withdraw failed its balance check after the guard had been set,
\* and the guard is not entered afterwards.
C2_Witness ==
    /\ pc = "idle"
    /\ func = "withdraw"
    /\ result = "InsufficientBalance"
    /\ ~IsEntered

\* C3: a guarded call whose enter step runs while the status is Entered
\* gets no further than that step, ends with ReentrantCall, and the status,
\* the balances and total_deposits are what they were before the call.
C3_GuardExclusivity ==
    (func \in Guarded /\ result # "init" /\ snap.reentrancy_status = ENTERED)
        => /\ pc \in {"d_enter", "w_enter", "idle"}
           /\ pc = "idle" => result = "ReentrantCall"
           /\ CurrentStorage = snap

\* The enter step has rejected a withdraw started while the status was
\* Entered, with funds on the ledger.
C3_Witness ==
    /\ pc = "idle"
    /\ func = "withdraw"
    /\ snap.reentrancy_status = ENTERED
    /\ result = "ReentrantCall"
    /\ snap.balances[sender] >= amount
    /\ amount > 0

C5_TransferBeforeDebit ==
    (func = "unsafe_withdraw" /\ pc = "u_bal")
        => /\ transfers # snap.transfers
           /\ transfers[Len(transfers)] = [to |-> sender, amount |-> amount]

\* C6: withdraw and unsafe_withdraw with an amount greater than the
\* caller's balance never get past the balance check, end with
\* InsufficientBalance, and leave balances, total and guard status as they
\* were before the call.
C6_DebitSafety ==
    (func \in {"withdraw", "unsafe_withdraw"} /\ result # "init"
        /\ amount > snap.balances[sender])
        => /\ pc \in {"w_enter", "w_check", "u_check", "idle"}
           /\ pc = "idle" => (result = "InsufficientBalance" /\ CurrentStorage = snap)

\* A guarded withdraw of more than a non-zero balance has failed.
C6_Witness ==
    /\ pc = "idle"
    /\ func = "withdraw"
    /\ snap.balances[sender] > 0
    /\ amount > snap.balances[sender]
    /\ result = "InsufficientBalance"
    /\ CurrentStorage = snap

\* C7: a successful guarded withdraw of amount A has issued exactly one
\* outbound transfer of A to the caller.
C7_OneTransferPerWithdraw ==
    (Completed /\ func = "withdraw" /\ result = "true")
        => transfers = Append(snap.transfers, [to |-> sender, amount |-> amount])

\* C8: a deposit that would take the caller's balance or total_deposits
\* past the largest value ends with ArithmeticOverflow and leaves balances
\* and total_deposits unchanged.
C8_OverflowFails ==
    (Completed /\ func = "deposit"
        /\ (snap.balances[sender] + amount > MaxU256
            \/ snap.total_deposits + amount > MaxU256))
        => /\ result = "ArithmeticOverflow"
           /\ balances = snap.balances
           /\ total_deposits = snap.total_deposits

\* C9: a successful deposit of V by X raises balance_of(X) and
\* total_deposits by exactly V and leaves every other balance unchanged.
C9_DepositEffect ==
    (Completed /\ func = "deposit" /\ result = "true")
        => /\ BalanceOf(sender) = snap.balances[sender] + amount
           /\ TotalDeposits = snap.total_deposits + amount
           /\ OthersUnchanged

\* C10: a successful guarded withdraw of A by X lowers balance_of(X) and
\* total_deposits by exactly A and leaves every other balance unchanged.
C10_WithdrawEffect ==
    (Completed /\ func = "withdraw" /\ result = "true")
        => /\ BalanceOf(sender) = snap.balances[sender] - amount
           /\ TotalDeposits = snap.total_deposits - amount
           /\ OthersUnchanged

\* C11: unsafe_withdraw never passes through the guard: the status stays
\* what it was when the call started at every step of the call, and with a
\* sufficient balance the call returns true, also when it was started with
\* the status Entered.
C11_UnsafeOutsideGuard ==
    (func = "unsafe_withdraw" /\ result # "init")
        => /\ reentrancy_status = snap.reentrancy_status
           /\ pc \in {"u_check", "u_bal", "u_total", "ret", "idle"}
           /\ (pc = "idle" /\ amount <= snap.balances[sender]) => result = "true"

\* An unsafe_withdraw of a non-zero amount started with the status Entered
\* has returned true and debited the caller.
C11_Witness ==
    /\ pc = "idle"
    /\ func = "unsafe_withdraw"
    /\ snap.reentrancy_status = ENTERED
    /\ IsEntered
    /\ amount > 0
    /\ result = "true"
    /\ balances[sender] = snap.balances[sender] - amount

Views == {"balance_of", "total_deposits", "is_entered"}

\* C12: a view call leaves balances, total and guard status as they were;
\* balance_of returns 0 for an account no deposit has credited; is_entered
\* returns true exactly when the stored status is Entered.
C12_ReadsArePure ==
    (pc = "idle" /\ func \in Views)
        => /\ CurrentStorage = snap
           /\ (func = "balance_of" /\ retval.arg \notin credited) => retval.value = 0
           /\ func = "is_entered" => (retval.value <=> reentrancy_status = ENTERED)

\* balance_of has returned 0 for an account never credited while another
\* account holds a balance.
C12_Witness ==
    /\ pc = "idle"
    /\ func = "balance_of"
    /\ retval.arg \notin credited
    /\ retval.value = 0
    /\ \E a \in Accounts : balances[a] > 0
    /\ CurrentStorage = snap

\* Positions of a guarded call between its enter step and its guard reset.
InsideGuard == {"d_bal", "d_total", "d_reset", "w_check", "w_bal", "w_total", "w_reset"}

\* C13: there is one guard for all accounts.  While a guarded call of any
\* account is past its enter step the single status word is Entered, so the
\* enter check fails whoever evaluates it; and a deposit or withdraw of any
\* account that starts while the status is Entered ends with ReentrantCall
\* without touching the ledger.
C13_SingleCriticalSection ==
    /\ (func \in Guarded /\ pc \in InsideGuard)
          => /\ reentrancy_status = ENTERED
             /\ ~NotEntered(reentrancy_status)
    /\ \A y \in Accounts :
          (Completed /\ func \in Guarded /\ sender = y
              /\ snap.reentrancy_status = ENTERED)
          => /\ result = "ReentrantCall"
             /\ balances = snap.balances
             /\ total_deposits = snap.total_deposits

\* A deposit by the second account, started while the status was Entered
\* and the first account held a balance, has been rejected.
C13_Witness ==
    /\ pc = "idle"
    /\ func = "deposit"
    /\ sender = 2
    /\ amount > 0
    /\ snap.reentrancy_status = ENTERED
    /\ snap.balances[1] > 0
    /\ result = "ReentrantCall"

\* C14: the status leaves Entered only in a step of a guarded call whose own
\* enter step succeeded (it started with the status NotEntered and is past
\* enter); a call that started while the status was Entered, failing or
\* not, leaves it Entered at every step.
C14_ExitOnlyByEnteringFrame ==
    [][ /\ (reentrancy_status = ENTERED /\ reentrancy_status' # ENTERED)
            => /\ func \in Guarded
               /\ pc \in InsideGuard
               /\ snap.reentrancy_status = NOT_ENTERED
        /\ (pc # "idle" /\ snap.reentrancy_status = ENTERED)
            => reentrancy_status' = ENTERED ]_vars

\* A withdraw started while the status was Entered has failed at its enter
\* step and the status is still Entered.
C14_Witness ==
    /\ pc = "idle"
    /\ func = "withdraw"
    /\ snap.reentrancy_status = ENTERED
    /\ amount > snap.balances[sender]
    /\ result = "ReentrantCall"
    /\ reentrancy_status = ENTERED

\* C17: between calls total_deposits is at least every account's balance,
\* and when a withdraw or unsafe_withdraw that passed its balance check
\* subtracts the amount from total_deposits, the total is at least the
\* amount.
C17_NoUnderflowOfTotal ==
    /\ pc = "idle" => \A a \in Accounts : total_deposits >= balances[a]
    /\ pc \in {"w_total", "u_total"} => total_deposits >= amount

\* C18: the status word starts at 0 and only ever holds 0 or 1: the enter
\* step finds 0 and writes 1, nothing else raises it to 1, and the reset at
\* the end of deposit and withdraw writes 0.
C18_StatusTwoValued ==
    /\ reentrancy_status = NOT_ENTERED
    /\ [][ /\ reentrancy_status' \in {0, 1}
           /\ pc \in {"d_enter", "w_enter"}
                => (reentrancy_status = 0 /\ reentrancy_status' = 1)
           /\ (reentrancy_status # 1 /\ reentrancy_status' = 1)
                => pc \in {"d_enter", "w_enter"}
           /\ pc \in {"d_reset", "w_reset"} => reentrancy_status' = 0 ]_vars

\* The reset of a guarded withdraw that debited the caller has just written
\* 0 over the 1 set by the enter step.
C18_Witness ==
    /\ pc = "ret"
    /\ func = "withdraw"
    /\ amount > 0
    /\ snap.reentrancy_status = 0
    /\ reentrancy_status = 0

====
